---- MODULE Spec2Model ----
(***************************************************************************)
(* A model of datasette/app.py: the route table built by Datasette.app(),  *)
(* DatasetteRouter (base_url stripping, the not-found chain handle_404 and *)
(* the error translator handle_500), the database registry as __init__,    *)
(* add_database and remove_database build it, Datasette.execute with the   *)
(* worker pool, timer and truncation of Database.execute behind it, and    *)
(* Datasette.metadata.                                                     *)
(*                                                                         *)
(* Text (paths, query strings, regular-expression literals) is a sequence  *)
(* of one-character strings, so that matching, stripping and suffix tests  *)
(* are computed character by character as the code computes them.          *)
(***************************************************************************)
EXTENDS Integers, Sequences, FiniteSets, TLC

VARIABLES
    base_url,       \* self._config["base_url"]
    cors,           \* self.cors
    templates,      \* the templates self.jinja_env can load
    scope,          \* the ASGI scope of the request: path, query_string
    pc,             \* where the request is: route_path, view, handle_404, handle_500, done
    match,          \* the binding route_path selected: index into routes (0: none), kwargs
    view_result,    \* what the invoked view did: returned, or the exception it raised
    exception,      \* the exception handed to handle_404 / handle_500
    events,         \* what the router emitted, in order: log lines and responses
    databases,      \* self.databases: the registry, names in insertion order
    calls,          \* the execute() calls made so far, with their outcome
    files,          \* self.files: the paths Datasette.__init__ registers, in order
    init,           \* where __init__ is: the next file of its loop, ready or failed
    num_sql_threads,    \* self.config("num_sql_threads")
    sql_time_limit_ms,  \* self.sql_time_limit_ms
    tasks,          \* the execute() calls handed to self.executor, by call number
    connections,    \* the open connections: <<worker, database name>>
    interrupts,     \* the connections an interrupt was requested on
    args,           \* the arguments of a call of a pure method
    result          \* what that call returned

vars == <<base_url, cors, templates, scope, pc, match, view_result, exception,
          events, databases, calls, files, init, num_sql_threads,
          sql_time_limit_ms, tasks, connections, interrupts, args, result>>

routerVars == <<base_url, cors, templates, scope, pc, match, view_result,
                exception, events>>

registryVars == <<databases, calls>>

constructionVars == <<files, init>>

poolVars == <<num_sql_threads, sql_time_limit_ms, tasks, connections, interrupts>>

callVars == <<args, result>>

-----------------------------------------------------------------------------
(* Bounds of the model *)

\* the longest tail, in parts, appended to a request path
MaxTail == 2

\* the number of execute() calls and registry mutations of one behaviour
MaxCalls == 3

\* the number of execute() calls handed to the worker pool in one behaviour
MaxQueries == 2

\* the largest num_sql_threads configured
MaxThreads == 2

\* the number of internal steps a statement runs for when nothing stops it
StatementSteps == 2

\* the largest max_returned_rows configured
MaxRows == 3

\* the number of files Datasette is constructed with
MaxFiles == 2

-----------------------------------------------------------------------------
(* Text helpers *)

\* str.startswith
StartsWith(s, p) ==
    /\ Len(p) <= Len(s)
    /\ SubSeq(s, 1, Len(p)) = p

\* str.endswith / bytes.endswith
EndsWith(s, p) ==
    /\ Len(p) <= Len(s)
    /\ SubSeq(s, Len(s) - Len(p) + 1, Len(s)) = p

\* bytes.rstrip(b"/"): every trailing occurrence of the character is removed
RECURSIVE rstrip(_, _)
rstrip(s, ch) ==
    IF s # <<>> /\ s[Len(s)] = ch
    THEN rstrip(SubSeq(s, 1, Len(s) - 1), ch)
    ELSE s

\* str.split(ch): the pieces between the occurrences of ch, empty ones included
RECURSIVE split(_, _)
split(s, ch) ==
    IF \E i \in 1..Len(s) : s[i] = ch
    THEN LET i == CHOOSE k \in 1..Len(s) :
                     /\ s[k] = ch
                     /\ \A j \in 1..(k - 1) : s[j] # ch
         IN  <<SubSeq(s, 1, i - 1)>> \o split(SubSeq(s, i + 1, Len(s)), ch)
    ELSE <<s>>

\* os.path.join(a, *parts) on POSIX, for parts that hold no separator: a
\* separator is added before a part unless what is joined so far ends in one
RECURSIVE path_join(_, _)
path_join(a, parts) ==
    IF parts = <<>>
    THEN a
    ELSE path_join(
            IF a = <<>> \/ a[Len(a)] = "/"
            THEN a \o Head(parts)
            ELSE a \o <<"/">> \o Head(parts),
            Tail(parts))

\* None
None == "None"

-----------------------------------------------------------------------------
(* Regular expressions, as Python's re matches them: a backtracking search *)
(* that tries the alternatives in priority order.  M gives every way the   *)
(* expression matches at a position, best first; re.match takes the first. *)

Lit(s) == [t |-> "lit", s |-> s]                    \* literal characters
AnyChar == [t |-> "any"]                            \* .
AnyStar == [t |-> "anystar"]                        \* .*
NotSlashLazy == [t |-> "nslazy"]                    \* [^/]+?
NotSlashGreedy == [t |-> "nsgreedy"]                \* [^/]+
Eos == [t |-> "eos"]                                \* $
Cat(items) == [t |-> "cat", items |-> items]        \* r1 r2 ...
Alt(items) == [t |-> "alt", items |-> items]        \* r1|r2|...
Opt(r) == [t |-> "opt", r |-> r]                    \* (r)?
Grp(name, r) == [t |-> "grp", name |-> name, r |-> r] \* (?P<name>r)

\* a group that took no part in the match
NoCapture == [set |-> FALSE, v |-> <<>>]

Captured(v) == [set |-> TRUE, v |-> v]

\* the length of the longest run of characters other than "/" from position i
RECURSIVE NotSlashRun(_, _)
NotSlashRun(s, i) ==
    IF i <= Len(s) /\ s[i] # "/" THEN 1 + NotSlashRun(s, i + 1) ELSE 0

\* the named groups of an expression
RECURSIVE GroupsOf(_)
GroupsOf(r) ==
    CASE r.t = "grp" -> {r.name} \cup GroupsOf(r.r)
      [] r.t = "opt" -> GroupsOf(r.r)
      [] r.t \in {"cat", "alt"} ->
            UNION {GroupsOf(r.items[k]) : k \in 1..Len(r.items)}
      [] OTHER -> {}

RECURSIVE M(_, _, _, _), MCat(_, _, _, _, _), MAlt(_, _, _, _, _), MThen(_, _, _, _, _)

M(r, s, i, c) ==
    CASE r.t = "lit" ->
            IF /\ i + Len(r.s) - 1 <= Len(s)
               /\ SubSeq(s, i, i + Len(r.s) - 1) = r.s
            THEN <<[pos |-> i + Len(r.s), caps |-> c]>>
            ELSE <<>>
      [] r.t = "any" ->
            IF i <= Len(s) THEN <<[pos |-> i + 1, caps |-> c]>> ELSE <<>>
      [] r.t = "anystar" ->
            \* greedy: the longest first
            [k \in 1..(Len(s) - i + 2) |-> [pos |-> Len(s) + 2 - k, caps |-> c]]
      [] r.t = "nslazy" ->
            \* lazy: the shortest first
            [k \in 1..NotSlashRun(s, i) |-> [pos |-> i + k, caps |-> c]]
      [] r.t = "nsgreedy" ->
            LET n == NotSlashRun(s, i)
            IN  [k \in 1..n |-> [pos |-> i + n + 1 - k, caps |-> c]]
      [] r.t = "eos" ->
            IF i = Len(s) + 1 THEN <<[pos |-> i, caps |-> c]>> ELSE <<>>
      [] r.t = "grp" ->
            LET rs == M(r.r, s, i, c)
            IN  [k \in 1..Len(rs) |->
                    [pos |-> rs[k].pos,
                     caps |-> [rs[k].caps EXCEPT
                        ![r.name] = Captured(SubSeq(s, i, rs[k].pos - 1))]]]
      [] r.t = "opt" -> M(r.r, s, i, c) \o <<[pos |-> i, caps |-> c]>>
      [] r.t = "alt" -> MAlt(r.items, 1, s, i, c)
      [] r.t = "cat" -> MCat(r.items, 1, s, i, c)

\* the alternatives from the k-th on, in order
MAlt(items, k, s, i, c) ==
    IF k > Len(items)
    THEN <<>>
    ELSE M(items[k], s, i, c) \o MAlt(items, k + 1, s, i, c)

\* the items from the k-th on, one after the other
MCat(items, k, s, i, c) ==
    IF k > Len(items)
    THEN <<[pos |-> i, caps |-> c]>>
    ELSE MThen(M(items[k], s, i, c), items, k + 1, s, 1)

\* for each way rs[j..] the item before matched, the ways the rest matches
MThen(rs, items, k, s, j) ==
    IF j > Len(rs)
    THEN <<>>
    ELSE MCat(items, k, s, rs[j].pos, rs[j].caps)
            \o MThen(rs, items, k, s, j + 1)

\* regex.match(path): anchored at the start only; the first way found, if any
re_match(regex, path) ==
    M(regex, path, 1, [g \in GroupsOf(regex) |-> NoCapture])

-----------------------------------------------------------------------------
(* The route table of Datasette.app() *)

\* self.static_mounts: one mounted directory, ("m", dirname)
static_mounts == << <<"m">> >>

\* get_plugins(): the names of the plugins that ship a static_path
plugins == << <<"p", "-", "q">> >>

\* plugin["name"].replace("-", "_")
underscored(name) == [k \in 1..Len(name) |-> IF name[k] = "-" THEN "_" ELSE name[k]]

\* r"\.json": "|".join(r"\." + key for key in self.renderers.keys()), with the
\* one built-in renderer that register_renderers registers
renderer_regex == Lit(<<".", "j", "s", "o", "n">>)

\* r"/-/<name>(?P<as_format>(\.json)?)$"
JsonDataRoute(name) ==
    Cat(<<Lit(<<"/", "-", "/">> \o name),
          Grp("as_format", Opt(Lit(<<".", "j", "s", "o", "n">>))),
          Eos>>)

\* the routes of one mount: r"/" + path + "/(?P<path>.*)$"
RECURSIVE MountRoutes(_)
MountRoutes(mounts) ==
    IF mounts = <<>>
    THEN <<>>
    ELSE <<[regex |-> Cat(<<Lit(<<"/">> \o Head(mounts) \o <<"/">>),
                           Grp("path", AnyStar), Eos>>),
            view |-> "asgi_static(mount)"]>>
         \o MountRoutes(Tail(mounts))

\* the two routes of each plugin: its name, and its name with underscores
RECURSIVE PluginRoutes(_)
PluginRoutes(ps) ==
    IF ps = <<>>
    THEN <<>>
    ELSE LET prefix == <<"/", "-", "/", "s", "t", "a", "t", "i", "c", "-",
                         "p", "l", "u", "g", "i", "n", "s", "/">>
         IN  <<[regex |-> Cat(<<Lit(prefix \o Head(ps) \o <<"/">>),
                                Grp("path", AnyStar), Eos>>),
                view |-> "asgi_static(plugin)"],
               [regex |-> Cat(<<Lit(prefix \o underscored(Head(ps)) \o <<"/">>),
                                Grp("path", AnyStar), Eos>>),
                view |-> "asgi_static(plugin_underscore)"]>>
             \o PluginRoutes(Tail(ps))

\* routes, in the order add_route appends them
routes ==
    <<  \* r"/(?P<as_format>(\.jsono?)?$)"
        [regex |-> Cat(<<Lit(<<"/">>),
                         Grp("as_format",
                             Cat(<<Opt(Cat(<<Lit(<<".", "j", "s", "o", "n">>),
                                             Opt(Lit(<<"o">>))>>)),
                                   Eos>>))>>),
         view |-> "IndexView"],
        \* "/favicon.ico": the dot is not escaped, and there is no $
        [regex |-> Cat(<<Lit(<<"/", "f", "a", "v", "i", "c", "o", "n">>),
                         AnyChar,
                         Lit(<<"i", "c", "o">>)>>),
         view |-> "favicon"],
        \* r"/-/static/(?P<path>.*)$"
        [regex |-> Cat(<<Lit(<<"/", "-", "/", "s", "t", "a", "t", "i", "c", "/">>),
                         Grp("path", AnyStar), Eos>>),
         view |-> "asgi_static"]
    >>
    \o MountRoutes(static_mounts)
    \o PluginRoutes(plugins)
    \o
    <<  [regex |-> JsonDataRoute(<<"m", "e", "t", "a", "d", "a", "t", "a">>),
         view |-> "metadata.json"],
        [regex |-> JsonDataRoute(<<"v", "e", "r", "s", "i", "o", "n", "s">>),
         view |-> "versions.json"],
        [regex |-> JsonDataRoute(<<"p", "l", "u", "g", "i", "n", "s">>),
         view |-> "plugins.json"],
        [regex |-> JsonDataRoute(<<"c", "o", "n", "f", "i", "g">>),
         view |-> "config.json"],
        [regex |-> JsonDataRoute(<<"t", "h", "r", "e", "a", "d", "s">>),
         view |-> "threads.json"],
        [regex |-> JsonDataRoute(<<"d", "a", "t", "a", "b", "a", "s", "e", "s">>),
         view |-> "databases.json"],
        \* r"/-/patterns$"
        [regex |-> Cat(<<Lit(<<"/", "-", "/", "p", "a", "t", "t", "e", "r", "n", "s">>),
                         Eos>>),
         view |-> "PatternPortfolioView"],
        \* r"/(?P<db_name>[^/]+?)(?P<as_db>\.db)$"
        [regex |-> Cat(<<Lit(<<"/">>),
                         Grp("db_name", NotSlashLazy),
                         Grp("as_db", Lit(<<".", "d", "b">>)),
                         Eos>>),
         view |-> "DatabaseDownload"],
        \* r"/(?P<db_name>[^/]+?)(?P<as_format>" + renderer_regex + r"|.jsono|\.csv)?$"
        [regex |-> Cat(<<Lit(<<"/">>),
                         Grp("db_name", NotSlashLazy),
                         Opt(Grp("as_format",
                                 Alt(<<renderer_regex,
                                       Cat(<<AnyChar, Lit(<<"j", "s", "o", "n", "o">>)>>),
                                       Lit(<<".", "c", "s", "v">>)>>))),
                         Eos>>),
         view |-> "DatabaseView"],
        \* r"/(?P<db_name>[^/]+)/(?P<table_and_format>[^/]+?$)"
        [regex |-> Cat(<<Lit(<<"/">>),
                         Grp("db_name", NotSlashGreedy),
                         Lit(<<"/">>),
                         Grp("table_and_format", Cat(<<NotSlashLazy, Eos>>))>>),
         view |-> "TableView"],
        \* r"/(?P<db_name>[^/]+)/(?P<table>[^/]+?)/(?P<pk_path>[^/]+?)(?P<as_format>"
        \*   + renderer_regex + r")?$"
        [regex |-> Cat(<<Lit(<<"/">>),
                         Grp("db_name", NotSlashGreedy),
                         Lit(<<"/">>),
                         Grp("table", NotSlashLazy),
                         Lit(<<"/">>),
                         Grp("pk_path", NotSlashLazy),
                         Opt(Grp("as_format", renderer_regex)),
                         Eos>>),
         view |-> "RowView"]
    >>

-----------------------------------------------------------------------------
(* Routing *)

\* the result of a dispatch that found no binding
NoMatch == [route |-> 0, kwargs |-> <<>>]

\* AsgiRouter.route_path: the bindings are tried in registration order and the
\* first whose pattern matches is taken, with its named groups as kwargs
first_match(path) ==
    LET hits == {k \in 1..Len(routes) : re_match(routes[k].regex, path) # <<>>}
    IN  IF hits = {}
        THEN NoMatch
        ELSE LET k == CHOOSE j \in hits : \A h \in hits : j <= h
             IN  [route |-> k,
                  kwargs |-> Head(re_match(routes[k].regex, path)).caps]

\* DatasetteRouter.route_path: base_url is stripped off before routing
strip_base_url(base, path) ==
    IF base # <<"/">> /\ StartsWith(path, base)
    THEN <<"/">> \o SubSeq(path, Len(base) + 1, Len(path))
    ELSE path

route_path(base, path) == first_match(strip_base_url(base, path))

-----------------------------------------------------------------------------
(* Exceptions *)

\* an exception: its class, its message (args[0], str()), and the fields a
\* DatasetteError carries
Exc(kind, message, title, error_dict, status, html) ==
    [kind |-> kind, message |-> message, title |-> title,
     error_dict |-> error_dict, status |-> status, messagge_is_html |-> html]

\* dict(): no entries
EmptyDict == [k \in {} |-> None]

\* exception=None
NoException == Exc("None", "", None, EmptyDict, 0, FALSE)

\* NotFound(message)
NotFound(message) == Exc("NotFound", message, None, EmptyDict, 0, FALSE)

\* DatasetteError(message, title, error_dict, status, messagge_is_html)
DatasetteError(message, title, error_dict, status, html) ==
    Exc("DatasetteError", message, title, error_dict, status, html)

\* any other exception, with its str()
OtherException(cls, text) == Exc(cls, text, None, EmptyDict, 0, FALSE)

\* Markup(message): the same text, marked as safe to render unescaped
Markup(message) == [text |-> message, safe |-> TRUE]

\* a plain str
Str(message) == [text |-> message, safe |-> FALSE]

-----------------------------------------------------------------------------
(* Responses *)

\* dict.update: the entries of e replace or extend those of d
update(d, e) ==
    [k \in DOMAIN d \cup DOMAIN e |-> IF k \in DOMAIN e THEN e[k] ELSE d[k]]

\* one response handed to send
Response(status, headers, content_type, body) ==
    [ev |-> "response", status |-> status, headers |-> headers,
     content_type |-> content_type, body |-> body]

\* traceback.print_exc(): the failure, with its context, on the log
LogTraceback(exc) == [ev |-> "log", exception |-> exc]

\* no template: what select_template's TemplateNotFound leaves
NoTemplate == <<>>

\* a response body: nothing, a JSON document, or a rendered template
Body(kind, template, context) ==
    [kind |-> kind, template |-> template, context |-> context]

\* asgi_send_redirect(send, location): status 302, a Location header, no body
asgi_send_redirect(location) ==
    Response(302, [k \in {"Location"} |-> location], "text/html",
             Body("empty", NoTemplate, EmptyDict))

\* asgi_send_json(send, info, status, headers)
asgi_send_json(info, status, headers) ==
    Response(status, headers, "application/json; charset=utf-8",
             Body("json", NoTemplate, info))

\* asgi_send_html(send, await template.render_async(info), status, headers)
asgi_send_html(template, info, status, headers) ==
    Response(status, headers, "text/html; charset=utf-8",
             Body("html", template, info))

\* str(n) of a natural number: its decimal digits
RECURSIVE str_int(_)
str_int(n) ==
    LET digit(d) == <<"0", "1", "2", "3", "4", "5", "6", "7", "8", "9">>[d + 1]
    IN  IF n < 10
        THEN <<digit(n)>>
        ELSE str_int(n \div 10) \o <<digit(n % 10)>>

\* "{}.html".format(status)
status_template(status) == str_int(status) \o <<".", "h", "t", "m", "l">>

\* "500.html"
generic_template == <<"5", "0", "0", ".", "h", "t", "m", "l">>

\* jinja_env.select_template(names): the first of the names that can be
\* loaded, none (TemplateNotFound) when none can
RECURSIVE select_template(_, _)
select_template(available, names) ==
    IF names = <<>>
    THEN NoTemplate
    ELSE IF Head(names) \in DOMAIN available
         THEN Head(names)
         ELSE select_template(available, Tail(names))

-----------------------------------------------------------------------------
(* DatasetteRouter.handle_500: the error translator *)

\* a variant that tests the whole URL, query string included
wants_json_full_url(sc) ==
    EndsWith(IF sc.query_string # <<>>
             THEN sc.path \o <<"?">> \o sc.query_string
             ELSE sc.path,
             <<".", "j", "s", "o", "n">>)

\* scope["path"].split("?")[0].endswith(".json")
wants_json(sc) ==
    EndsWith(split(sc.path, "?")[1], <<".", "j", "s", "o", "n">>)

\* a variant with no branch for NotFound
error_status_no_404(exc) ==
    IF exc.kind = "DatasetteError" THEN exc.status ELSE 500

\* status, info and message by the class of the exception
error_status(exc) ==
    IF exc.kind = "NotFound" THEN 404
    ELSE IF exc.kind = "DatasetteError" THEN exc.status
    ELSE 500

\* a variant that drops the detail map
error_info_dropped(exc) == EmptyDict

error_info(exc) ==
    IF exc.kind = "DatasetteError" THEN exc.error_dict ELSE EmptyDict

error_message(exc) ==
    IF exc.kind = "DatasetteError" /\ exc.messagge_is_html
    THEN Markup(exc.message)
    ELSE Str(exc.message)

error_title(exc) ==
    IF exc.kind = "DatasetteError" THEN exc.title ELSE None

\* a variant that never prints the traceback
error_logged_never(exc) == FALSE

\* traceback.print_exc() runs for the exceptions that are neither NotFound
\* nor DatasetteError
error_logged(exc) == exc.kind \notin {"NotFound", "DatasetteError"}

\* templates = ["500.html"], with "<status>.html" put first unless status is 500
error_templates(status) ==
    IF status # 500
    THEN <<status_template(status), generic_template>>
    ELSE <<generic_template>>

\* a variant that adds the class of the exception to the payload
error_payload_with_class(exc) ==
    update(error_info(exc),
           [k \in {"ok", "error", "status", "title", "class"} |->
                CASE k = "ok" -> FALSE
                  [] k = "error" -> error_message(exc)
                  [] k = "status" -> error_status(exc)
                  [] k = "title" -> error_title(exc)
                  [] k = "class" -> exc.kind])

\* info.update({"ok": False, "error": message, "status": status, "title": title})
error_payload(exc) ==
    update(error_info(exc),
           [k \in {"ok", "error", "status", "title"} |->
                CASE k = "ok" -> FALSE
                  [] k = "error" -> error_message(exc)
                  [] k = "status" -> error_status(exc)
                  [] k = "title" -> error_title(exc)])

\* headers of an error response
error_headers(crs) ==
    IF crs
    THEN [k \in {"Access-Control-Allow-Origin"} |-> "*"]
    ELSE EmptyDict

\* handle_500(scope, receive, send, exception): what it emits, in order
handle_500(sc, exc, tmpl, crs) ==
    (IF error_logged(exc) THEN <<LogTraceback(exc)>> ELSE <<>>)
    \o
    <<IF wants_json(sc)
      THEN asgi_send_json(error_payload(exc), error_status(exc), error_headers(crs))
      ELSE asgi_send_html(select_template(tmpl, error_templates(error_status(exc))),
                          error_payload(exc), error_status(exc), error_headers(crs))>>

-----------------------------------------------------------------------------
(* DatasetteRouter.handle_404: the not-found chain *)

\* scope.get("raw_path", scope["path"].encode("utf8")): the request paths of
\* the model are ASCII with no percent-escape, so both are the same bytes
raw_path(sc) == sc.path

\* the location of the redirect: the path without its trailing slashes, then
\* "?" and the query string when there is one
redirect_location(sc) ==
    IF sc.query_string # <<>>
    THEN rstrip(raw_path(sc), "/") \o <<"?">> \o sc.query_string
    ELSE rstrip(raw_path(sc), "/")

\* os.path.join("pages", *scope["path"].split("/")) + ".html"
template_path(sc) ==
    path_join(<<"p", "a", "g", "e", "s">>, split(sc.path, "/"))
        \o <<".", "h", "t", "m", "l">>

\* k.lower() == "content-type"
is_content_type(k) == k \in {"content-type", "Content-Type", "CONTENT-TYPE"}

\* rendering a page template runs the calls the template makes to
\* custom_header, custom_status and custom_redirect, in order
RECURSIVE page_status(_, _)
page_status(page_calls, status) ==
    IF page_calls = <<>>
    THEN status
    ELSE page_status(Tail(page_calls),
            IF Head(page_calls).fn \in {"custom_status", "custom_redirect"}
            THEN Head(page_calls).code
            ELSE status)

RECURSIVE page_headers(_, _)
page_headers(page_calls, headers) ==
    IF page_calls = <<>>
    THEN headers
    ELSE page_headers(Tail(page_calls),
            IF Head(page_calls).fn = "custom_redirect"
            THEN update(headers, [k \in {"Location"} |-> Head(page_calls).value])
            ELSE IF Head(page_calls).fn = "custom_header"
            THEN update(headers, [k \in {Head(page_calls).name} |-> Head(page_calls).value])
            ELSE headers)

\* content_type: the template's Content-Type header when it set one
page_content_type(headers) ==
    IF \E k \in DOMAIN headers : is_content_type(k)
    THEN headers[CHOOSE k \in DOMAIN headers : is_content_type(k)]
    ELSE "text/html; charset=utf-8"

\* the response of a rendered page template
page_response(template, page_calls) ==
    LET headers == page_headers(page_calls, EmptyDict)
    IN  Response(page_status(page_calls, 200), headers,
                 page_content_type(headers), Body("page", template, EmptyDict))

\* a variant that looks for the page template of the slash-free path first
handle_404_template_first(sc, exc, tmpl, crs) ==
    LET bare == [sc EXCEPT !.path = rstrip(sc.path, "/")]
        template == select_template(tmpl, <<template_path(bare)>>)
    IN  IF template # NoTemplate
        THEN <<page_response(template, tmpl[template])>>
        ELSE IF EndsWith(raw_path(sc), <<"/">>)
        THEN <<asgi_send_redirect(redirect_location(sc))>>
        ELSE handle_500(sc, IF exc # NoException THEN exc ELSE NotFound("404"),
                        tmpl, crs)

\* handle_404(scope, receive, send, exception): what it emits, in order
handle_404(sc, exc, tmpl, crs) ==
    IF EndsWith(raw_path(sc), <<"/">>)
    THEN <<asgi_send_redirect(redirect_location(sc))>>
    ELSE LET template == select_template(tmpl, <<template_path(sc)>>)
         IN  IF template # NoTemplate
             THEN <<page_response(template, tmpl[template])>>
             ELSE handle_500(sc, IF exc # NoException THEN exc ELSE NotFound("404"),
                             tmpl, crs)

-----------------------------------------------------------------------------
(* The requests and configurations of the model *)

\* where a request path starts: at the root, or under the prefix "/p/"
Prefixes == {<<"/">>, <<"/", "p", "/">>}

\* the base_url settings: the default "/" and the prefix "/p/"
BaseUrls == {<<"/">>, <<"/", "p", "/">>}

\* the first part of a request path after its prefix: one per kind of route
RouteHeads ==
    {<<>>,
     <<"f", "a", "v", "i", "c", "o", "n", ".", "i", "c", "o">>,
     <<"-", "/", "s", "t", "a", "t", "i", "c", "/">>,
     <<"m", "/">>,
     <<"-", "/", "s", "t", "a", "t", "i", "c", "-", "p", "l", "u", "g", "i", "n", "s",
       "/", "p", "-", "q", "/">>,
     <<"-", "/", "s", "t", "a", "t", "i", "c", "-", "p", "l", "u", "g", "i", "n", "s",
       "/", "p", "_", "q", "/">>,
     <<"-", "/", "m", "e", "t", "a", "d", "a", "t", "a">>,
     <<"-", "/", "v", "e", "r", "s", "i", "o", "n", "s">>,
     <<"-", "/", "p", "l", "u", "g", "i", "n", "s">>,
     <<"-", "/", "c", "o", "n", "f", "i", "g">>,
     <<"-", "/", "t", "h", "r", "e", "a", "d", "s">>,
     <<"-", "/", "d", "a", "t", "a", "b", "a", "s", "e", "s">>,
     <<"-", "/", "p", "a", "t", "t", "e", "r", "n", "s">>}

\* the first parts used where the error handling is explored
ErrorHeads == {<<>>, <<"-", "/", "m", "e", "t", "a", "d", "a", "t", "a">>}

\* what a path is continued with
TailParts ==
    {<<"x">>, <<"/">>, <<".", "d", "b">>, <<".", "j", "s", "o", "n">>, <<"o">>}

\* the tails of at most n parts
RECURSIVE Tails(_)
Tails(n) ==
    IF n = 0
    THEN {<<>>}
    ELSE Tails(n - 1) \cup {t \o p : t \in Tails(n - 1), p \in TailParts}

RoutePaths == {p \o h \o t : p \in Prefixes, h \in RouteHeads, t \in Tails(MaxTail)}

ErrorPaths == {p \o h \o t : p \in Prefixes, h \in ErrorHeads, t \in Tails(MaxTail)}

QueryStrings == {<<>>, <<"a", "=", "1">>}

\* template names
Template404 == <<"4", "0", "4", ".", "h", "t", "m", "l">>

PageX == <<"p", "a", "g", "e", "s", "/", "x", ".", "h", "t", "m", "l">>

PagePX == <<"p", "a", "g", "e", "s", "/", "p", "/", "x", ".", "h", "t", "m", "l">>

\* what a page template may call while it renders
PageCalls ==
    {<<>>,
     <<[fn |-> "custom_status", code |-> 404, name |-> "", value |-> ""]>>,
     <<[fn |-> "custom_redirect", code |-> 302, name |-> "", value |-> <<"/", "x">>]>>,
     <<[fn |-> "custom_header", code |-> 0, name |-> "Content-Type",
        value |-> "text/plain"]>>}

\* the default templates directory always holds 500.html
DefaultTemplates == [n \in {generic_template} |-> <<>>]

\* the template sets: the default one, with a 404.html, with a page for /x in
\* each of its forms, with a page for /p/x
TemplateSets ==
    {DefaultTemplates,
     update(DefaultTemplates, [n \in {Template404} |-> <<>>]),
     update(DefaultTemplates, [n \in {Template404, PageX} |-> <<>>]),
     update(DefaultTemplates, [n \in {PagePX} |-> <<>>])}
    \cup {update(DefaultTemplates, [n \in {PageX} |-> c]) : c \in PageCalls}

\* the DatasetteErrors a view raises
DatasetteErrors ==
    {DatasetteError("m", None, EmptyDict, 400, FALSE),
     DatasetteError("m", "t", [k \in {"extra"} |-> "v"], 500, TRUE),
     DatasetteError("m", "t", [k \in {"extra", "ok"} |-> IF k = "ok" THEN TRUE ELSE "v"],
                    403, FALSE),
     DatasetteError("m", None, [k \in {"extra"} |-> "v"], 404, FALSE)}

\* the other exceptions a view raises
OtherExceptions == {OtherException("Exception", "boom"), OtherException("KeyError", "'zz'")}

\* the response a view sends when it returns
view_response == Response(200, EmptyDict, "view", Body("view", NoTemplate, EmptyDict))

-----------------------------------------------------------------------------
(* The database registry and Datasette.execute *)

\* the names databases are registered under
DbNames == {"a", "b"}

\* the names execute is called with: the registered ones and one never registered
CallNames == DbNames \cup {"zz"}

\* a Database of the given name
Database(name) == [name |-> name]

\* the keys of the registry
Keys(dbs) == {dbs[k].key : k \in 1..Len(dbs)}

\* a variant that never replaces: a known key gets a second entry
add_database_append(dbs, name, db) == Append(dbs, [key |-> name, db |-> db])

\* self.databases[name] = db: a new key goes last, a known key keeps its place
add_database(dbs, name, db) ==
    IF name \in Keys(dbs)
    THEN [k \in 1..Len(dbs) |->
            IF dbs[k].key = name THEN [key |-> name, db |-> db] ELSE dbs[k]]
    ELSE Append(dbs, [key |-> name, db |-> db])

\* self.databases.pop(name), for a name that is a key
remove_database(dbs, name) == SelectSeq(dbs, LAMBDA e : e.key # name)

\* a file: the directory it is in, the stem and the suffix of its name
File(dir, stem) == [dir |-> dir, stem |-> stem, suffix |-> ".db"]

\* MEMORY = object(): the file standing for the in-memory database
MEMORY == [dir |-> "", stem |-> ":memory:", suffix |-> ""]

\* the files Datasette is constructed with: two of them share their stem
Paths == {File("x", "a"), File("y", "a"), File("x", "b")}

RECURSIVE FileLists(_)
FileLists(n) ==
    IF n = 0
    THEN {<<>>}
    ELSE FileLists(n - 1) \cup
         {Append(fs, f) : fs \in {gs \in FileLists(n - 1) : Len(gs) = n - 1}, f \in Paths}

\* self.files after __init__ has put MEMORY in: alone when there is no file,
\* first when memory is set
init_files(fs, memory) ==
    IF fs = <<>>
    THEN <<MEMORY>>
    ELSE IF memory THEN <<MEMORY>> \o fs ELSE fs

\* Database.name: the stem of the file
database_name(file) == file.stem

\* one round of the loop of __init__ over self.files: a file whose name is a
\* key of the registry raises, any other is registered under its name; after
\* the last file __init__ goes on to return
register_file(dbs, fs, i) ==
    LET db == Database(database_name(fs[i]))
    IN  IF db.name \in Keys(dbs)
        THEN [databases |-> dbs, init |-> [next |-> i, state |-> "failed"]]
        ELSE [databases |-> add_database(dbs, db.name, db),
              init |-> IF i = Len(fs)
                       THEN [next |-> 0, state |-> "ready"]
                       ELSE [next |-> i + 1, state |-> "loop"]]

\* Database.execute: the statement runs on a worker and ends in a result, in a
\* QueryError or, interrupted by the timer, in a QueryInterrupted
DatabaseExecuteOutcomes == {"Result", "QueryError", "QueryInterrupted"}

\* a variant whose lookup registers a name it does not find
\* (self.databases.setdefault(db_name, Database(...))) and runs the statement
execute_setdefault(dbs, db_name, outcome) ==
    [call |-> [db_name |-> db_name, outcome |-> outcome, sql_ran |-> TRUE],
     databases |-> IF db_name \in Keys(dbs)
                   THEN dbs
                   ELSE Append(dbs, [key |-> db_name, db |-> Database(db_name)])]

\* Datasette.execute(db_name, sql, ...): self.databases[db_name] raises KeyError
\* for a name that is no key, before Database.execute is reached; the call and
\* the registry after it
execute(dbs, db_name, outcome) ==
    IF db_name \in Keys(dbs)
    THEN [call |-> [db_name |-> db_name, outcome |-> outcome, sql_ran |-> TRUE],
          databases |-> dbs]
    ELSE [call |-> [db_name |-> db_name, outcome |-> "KeyError", sql_ran |-> FALSE],
          databases |-> dbs]

-----------------------------------------------------------------------------
(* The query executor: Datasette.execute hands its arguments to              *)
(* Database.execute, which runs the statement on a worker of self.executor,  *)
(* on that worker's connection to the database, under a timer                *)

\* the keyword arguments Datasette.execute passes on, None written 0 for the
\* time limit and the page size; the variants pass on a default in place of
\* the caller's value
execute_kwargs_default_limit(truncate, custom_time_limit, page_size, log_sql_errors) ==
    [truncate |-> truncate, custom_time_limit |-> 0,
     page_size |-> page_size, log_sql_errors |-> log_sql_errors]

execute_kwargs_no_truncate(truncate, custom_time_limit, page_size, log_sql_errors) ==
    [truncate |-> FALSE, custom_time_limit |-> custom_time_limit,
     page_size |-> page_size, log_sql_errors |-> log_sql_errors]

execute_kwargs(truncate, custom_time_limit, page_size, log_sql_errors) ==
    [truncate |-> truncate, custom_time_limit |-> custom_time_limit,
     page_size |-> page_size, log_sql_errors |-> log_sql_errors]

\* futures.ThreadPoolExecutor(max_workers=self.config("num_sql_threads")): the
\* workers of the one pool; the variant lets the pool grow by a worker
max_workers_one_more(threads) == threads + 1

max_workers(threads) == threads

Workers == 1..max_workers(num_sql_threads)

\* the time limits a caller passes: none, one the statement outlasts, one it
\* does not
CustomTimeLimits == {0, StatementSteps - 1, StatementSteps + 1}

\* the time limits configured: none, one the statement outlasts
DefaultTimeLimits == {0, StatementSteps - 1}

\* the limit the timer of a call is started for: the custom one, or the
\* process default
time_limit_ms(custom_time_limit, default) ==
    IF custom_time_limit # 0 THEN custom_time_limit ELSE default

\* a limit of zero or less disables the timer
timer_for(limit) == IF limit > 0 THEN "armed" ELSE "off"

\* a call not made yet
IdleTask ==
    [state |-> "idle", db_name |-> None,
     args |-> execute_kwargs(FALSE, 0, 0, TRUE),
     kwargs |-> execute_kwargs(FALSE, 0, 0, TRUE),
     worker |-> 0, limit |-> 0, elapsed |-> 0, timer |-> "off",
     outcome |-> None, logged |-> FALSE]

\* the calls
Queries == 1..MaxQueries

\* the connection a running call uses: its worker's connection to its database
connection_of(t) == <<t.worker, t.db_name>>

\* the connections a statement is running on
busy_connections(ts) ==
    {connection_of(ts[q]) : q \in {r \in DOMAIN ts : ts[r].state = "running"}}

\* the workers running a call
busy_workers(ts) ==
    {ts[q].worker : q \in {r \in DOMAIN ts : ts[r].state = "running"}}

\* the workers the pool has started so far: those that have run a call, and
\* so hold a connection
started_workers(conns) == {c[1] : c \in conns}

\* the connections the timer of a call interrupts: every connection to the
\* database of the call (a variant), the connection of the call
interrupt_target_database(conns, t) == {c \in conns : c[2] = t.db_name}

interrupt_target(conns, t) == {connection_of(t)}

\* the timer of a running call has elapsed and not fired yet
timer_due(t) ==
    /\ t.state = "running"
    /\ t.timer = "armed"
    /\ t.elapsed >= t.limit

\* the statement of a call can take its next internal step
can_step(t, irqs) ==
    /\ t.state = "running"
    /\ connection_of(t) \notin irqs
    /\ ~timer_due(t)

\* the rows a statement matches, in their order: 1, 2, ..., n
Rows(n) == [i \in 1..n |-> i]

\* cursor.fetchmany(size): the first size rows, or all of fewer
fetchmany(rows, size) ==
    SubSeq(rows, 1, IF size < Len(rows) THEN size ELSE Len(rows))

\* the Results of a statement that returns normally: with truncate, one row
\* beyond the maximum is requested; if it is there, it is dropped and
\* truncated is set
Results(rows, max_returned_rows, kwargs) ==
    IF kwargs.truncate
    THEN LET fetched == fetchmany(rows, max_returned_rows + 1)
         IN  [rows |-> fetchmany(fetched, max_returned_rows),
              truncated |-> Len(fetched) > max_returned_rows]
    ELSE [rows |-> rows, truncated |-> FALSE]

\* the calls whose rows are looked at: the rows the statement matches, the
\* configured maximum, the truncate flag and the page size of the caller
RowCalls ==
    {[rows |-> Rows(n), max_returned_rows |-> m, truncate |-> t, page_size |-> p] :
        n \in 0..(MaxRows + 2), m \in 1..MaxRows, t \in BOOLEAN, p \in 0..MaxRows}

-----------------------------------------------------------------------------
(* Datasette.metadata: the lookup through self._metadata, a dict whose        *)
(* "databases" entry holds a dict per database, whose "tables" entry holds a  *)
(* dict per table                                                            *)

\* a value of the metadata that is no dict; the None metadata() returns
Value(x) == [v |-> x]

NoValue == Value(None)

\* the keys looked up that hold plain values
MetaKeys == {"title", "license"}

\* the keys that hold the nested dicts
NestKeys == {"databases", "tables"}

\* the plain entries of one level: the keys of ks, each with the value tag
Level(ks, tag) == [k \in ks |-> Value(tag)]

\* d with the entry key: value
with_entry(d, key, value) ==
    [k \in DOMAIN d \cup {key} |-> IF k = key THEN value ELSE d[k]]

\* the metadata of table "t": some of the keys, valued "t"
TableMetadata == {Level(ks, "t") : ks \in SUBSET MetaKeys}

\* the metadata of database "a": some of the keys, valued "d", with or without
\* tables
DatabaseMetadata ==
    {Level(ks, "d") : ks \in SUBSET MetaKeys} \cup
    {with_entry(Level(ks, "d"), "tables", [n \in {"t"} |-> t]) :
        ks \in SUBSET MetaKeys, t \in TableMetadata}

\* self._metadata: some of the keys, valued "g", with or without databases
Metadata ==
    {Level(ks, "g") : ks \in SUBSET MetaKeys} \cup
    {with_entry(Level(ks, "g"), "databases", [n \in {"a"} |-> d]) :
        ks \in SUBSET MetaKeys, d \in DatabaseMetadata}

\* the calls of metadata(): a key or none, a database or none (one with
\* metadata, one without), a table or none, fallback
MetadataCalls ==
    {[self_metadata |-> m, key |-> k, database |-> d, table |-> t, fallback |-> f] :
        m \in Metadata, k \in MetaKeys \cup NestKeys \cup {None},
        d \in {None, "a", "b"}, t \in {None, "t", "u"}, f \in BOOLEAN}

\* d.get(key) or {}
get_or_empty(d, key) == IF key \in DOMAIN d THEN d[key] ELSE EmptyDict

\* a variant of search_list that puts the levels in the opposite order
search_list_global_first(md, database, table, fallback) ==
    LET databases_md == get_or_empty(md, "databases")
        with_database ==
            IF database # None
            THEN <<get_or_empty(databases_md, database)>>
            ELSE <<>>
        with_table ==
            IF table # None
            THEN Append(with_database,
                    get_or_empty(get_or_empty(get_or_empty(databases_md, database),
                                              "tables"), table))
            ELSE with_database
    IN  IF ~fallback THEN SubSeq(<<md>> \o with_table, 1, 1) ELSE <<md>> \o with_table

\* search_list: the dict of the database when one is named, before it the
\* dict of the table when one is named, after them self._metadata; without
\* fallback only the first of them
search_list(md, database, table, fallback) ==
    LET databases_md == get_or_empty(md, "databases")
        with_database ==
            IF database # None
            THEN <<get_or_empty(databases_md, database)>>
            ELSE <<>>
        with_table ==
            IF table # None
            THEN <<get_or_empty(get_or_empty(get_or_empty(databases_md, database),
                                             "tables"), table)>> \o with_database
            ELSE with_database
        with_global == Append(with_table, md)
    IN  IF ~fallback THEN SubSeq(with_global, 1, 1) ELSE with_global

\* for item in search_list: if key in item: return item[key]; return None
RECURSIVE first_with(_, _)
first_with(list, key) ==
    IF list = <<>>
    THEN NoValue
    ELSE IF key \in DOMAIN Head(list)
         THEN Head(list)[key]
         ELSE first_with(Tail(list), key)

\* for item in search_list: m.update(item)
RECURSIVE update_all(_, _)
update_all(m, list) ==
    IF list = <<>>
    THEN m
    ELSE update_all(update(m, Head(list)), Tail(list))

\* a call has not returned; what it returned; what it raised
NoResult == [returned |-> FALSE]

Returned(value) == [returned |-> TRUE, value |-> value]

Raised(kind) == [returned |-> FALSE, raised |-> kind]

\* Datasette.metadata(key, database, table, fallback)
metadata(md, key, database, table, fallback) ==
    IF database = None /\ table # None
    THEN Raised("AssertionError")
    ELSE IF key # None
         THEN Returned(first_with(search_list(md, database, table, fallback), key))
         ELSE Returned(update_all(EmptyDict, search_list(md, database, table, fallback)))

-----------------------------------------------------------------------------
(* Initial states *)

Pending == [state |-> "pending", exception |-> NoException]

\* no call made, no database registered
InitRegistry ==
    /\ databases = <<>>
    /\ calls = <<>>

\* __init__ has returned
Ready == [next |-> 0, state |-> "ready"]

InitConstructed ==
    /\ files = <<>>
    /\ init = Ready

\* no call in the worker pool
InitIdlePool(threads, limits) ==
    /\ num_sql_threads \in threads
    /\ sql_time_limit_ms \in limits
    /\ tasks = [q \in Queries |-> IdleTask]
    /\ connections = {}
    /\ interrupts = {}

\* no call of a pure method
InitNoCall ==
    /\ args = None
    /\ result = NoResult

\* a request arrives, under some configuration
InitRouter(paths, queries, bases, corss, tmpls) ==
    /\ base_url \in bases
    /\ cors \in corss
    /\ templates \in tmpls
    /\ scope \in {[path |-> p, query_string |-> q] : p \in paths, q \in queries}
    /\ pc = "route_path"
    /\ match = NoMatch
    /\ view_result = Pending
    /\ exception = NoException
    /\ events = <<>>

\* the requests and configurations exploring the error handling
Init ==
    /\ InitRouter(ErrorPaths, QueryStrings, BaseUrls, BOOLEAN, TemplateSets)
    /\ InitRegistry
    /\ InitConstructed
    /\ InitIdlePool({1}, {0})
    /\ InitNoCall

\* the requests exploring the route table
InitRoutes ==
    /\ InitRouter(RoutePaths, {<<>>}, BaseUrls, {FALSE}, {DefaultTemplates})
    /\ InitRegistry
    /\ InitConstructed
    /\ InitIdlePool({1}, {0})
    /\ InitNoCall

\* the registry alone, no request in progress
InitExecute ==
    /\ InitRouter({<<"/">>}, {<<>>}, {<<"/">>}, {FALSE}, {DefaultTemplates})
    /\ InitRegistry
    /\ InitConstructed
    /\ InitIdlePool({1}, {0})
    /\ InitNoCall

\* the worker pool: every name of DbNames registered, no call made yet
InitPool ==
    /\ InitRouter({<<"/">>}, {<<>>}, {<<"/">>}, {FALSE}, {DefaultTemplates})
    /\ databases = add_database(add_database(<<>>, "a", Database("a")), "b", Database("b"))
    /\ calls = <<>>
    /\ InitConstructed
    /\ InitIdlePool(1..MaxThreads, DefaultTimeLimits)
    /\ InitNoCall

-----------------------------------------------------------------------------
(* Actions of the router *)

\* DatasetteRouter.route_path: strip base_url, find the binding, invoke its
\* view; with no binding, handle_404
RoutePath ==
    /\ pc = "route_path"
    /\ match' = route_path(base_url, scope.path)
    /\ pc' = IF match' = NoMatch THEN "handle_404" ELSE "view"
    /\ UNCHANGED <<base_url, cors, templates, scope, view_result, exception, events>>
    /\ UNCHANGED <<registryVars, constructionVars, poolVars, callVars>>

\* the view returns, having sent its response
ViewReturns ==
    /\ pc = "view"
    /\ view_result' = [state |-> "returned", exception |-> NoException]
    /\ events' = Append(events, view_response)
    /\ pc' = "done"
    /\ UNCHANGED <<base_url, cors, templates, scope, match, exception>>
    /\ UNCHANGED <<registryVars, constructionVars, poolVars, callVars>>

\* except NotFound as exception: handle_404(scope, receive, send, exception)
ViewRaisesNotFound ==
    /\ pc = "view"
    /\ view_result' = [state |-> "raised", exception |-> NotFound("Database not found")]
    /\ exception' = NotFound("Database not found")
    /\ pc' = "handle_404"
    /\ UNCHANGED <<base_url, cors, templates, scope, match, events>>
    /\ UNCHANGED <<registryVars, constructionVars, poolVars, callVars>>

\* except Exception as exception: handle_500(scope, receive, send, exception)
ViewRaisesDatasetteError ==
    /\ pc = "view"
    /\ \E e \in DatasetteErrors :
        /\ view_result' = [state |-> "raised", exception |-> e]
        /\ exception' = e
    /\ pc' = "handle_500"
    /\ UNCHANGED <<base_url, cors, templates, scope, match, events>>
    /\ UNCHANGED <<registryVars, constructionVars, poolVars, callVars>>

ViewRaisesException ==
    /\ pc = "view"
    /\ \E e \in OtherExceptions :
        /\ view_result' = [state |-> "raised", exception |-> e]
        /\ exception' = e
    /\ pc' = "handle_500"
    /\ UNCHANGED <<base_url, cors, templates, scope, match, events>>
    /\ UNCHANGED <<registryVars, constructionVars, poolVars, callVars>>

\* DatasetteRouter.handle_404
Handle404 ==
    /\ pc = "handle_404"
    /\ events' = events \o handle_404(scope, exception, templates, cors)
    /\ pc' = "done"
    /\ UNCHANGED <<base_url, cors, templates, scope, match, view_result, exception>>
    /\ UNCHANGED <<registryVars, constructionVars, poolVars, callVars>>

\* DatasetteRouter.handle_500
Handle500 ==
    /\ pc = "handle_500"
    /\ events' = events \o handle_500(scope, exception, templates, cors)
    /\ pc' = "done"
    /\ UNCHANGED <<base_url, cors, templates, scope, match, view_result, exception>>
    /\ UNCHANGED <<registryVars, constructionVars, poolVars, callVars>>

Next ==
    \/ RoutePath
    \/ ViewReturns
    \/ ViewRaisesNotFound
    \/ ViewRaisesDatasetteError
    \/ ViewRaisesException
    \/ Handle404
    \/ Handle500

Spec == Init /\ [][Next]_vars

SpecRoutes == InitRoutes /\ [][Next]_vars

-----------------------------------------------------------------------------
(* Actions of the registry *)

\* Datasette.add_database(name, db)
AddDatabase ==
    /\ init.state = "ready"
    /\ \E name \in DbNames, db \in {Database(n) : n \in DbNames} :
        databases' = add_database(databases, name, db)
    /\ UNCHANGED calls
    /\ UNCHANGED <<routerVars, constructionVars, poolVars, callVars>>

\* Datasette.remove_database(name)
RemoveDatabase ==
    /\ init.state = "ready"
    /\ \E name \in Keys(databases) :
        databases' = remove_database(databases, name)
    /\ UNCHANGED calls
    /\ UNCHANGED <<routerVars, constructionVars, poolVars, callVars>>

\* Datasette.execute(db_name, sql)
Execute ==
    /\ Len(calls) < MaxCalls
    /\ \E db_name \in CallNames, outcome \in DatabaseExecuteOutcomes :
        LET r == execute(databases, db_name, outcome)
        IN  /\ calls' = Append(calls, r.call)
            /\ databases' = r.databases
    /\ UNCHANGED <<routerVars, constructionVars, poolVars, callVars>>

NextExecute ==
    \/ AddDatabase
    \/ RemoveDatabase
    \/ Execute

SpecExecute == InitExecute /\ [][NextExecute]_vars

-----------------------------------------------------------------------------
(* Actions of the query executor *)

\* Datasette.execute(db_name, sql, ...): the registry lookup, the arguments
\* handed to Database.execute, the call handed to self.executor; the calls of
\* one behaviour are made in their order and pass the same log_sql_errors
ExecuteQuery ==
    \E q \in Queries, db_name \in Keys(databases),
       custom_time_limit \in CustomTimeLimits, log_sql_errors \in BOOLEAN :
        /\ tasks[q].state = "idle"
        /\ \A r \in 1..(q - 1) :
                /\ tasks[r].state # "idle"
                /\ tasks[r].args.log_sql_errors = log_sql_errors
        /\ tasks' = [tasks EXCEPT ![q] =
                [@ EXCEPT !.state = "queued",
                          !.db_name = db_name,
                          !.args = [truncate |-> FALSE,
                                    custom_time_limit |-> custom_time_limit,
                                    page_size |-> 0,
                                    log_sql_errors |-> log_sql_errors],
                          !.kwargs = execute_kwargs(FALSE, custom_time_limit,
                                                    0, log_sql_errors)]]
        /\ UNCHANGED <<num_sql_threads, sql_time_limit_ms, connections, interrupts>>
        /\ UNCHANGED <<routerVars, registryVars, constructionVars, callVars>>

\* a worker with nothing to run takes a queued call: it opens its connection
\* to the database on first use and starts the timer; the pool starts its
\* workers one after the other, as they are first needed
WorkerStarts ==
    \E q \in Queries, w \in Workers :
        /\ tasks[q].state = "queued"
        /\ w \notin busy_workers(tasks)
        /\ \A v \in 1..(w - 1) : v \in started_workers(connections)
        /\ LET limit == time_limit_ms(tasks[q].kwargs.custom_time_limit,
                                      sql_time_limit_ms)
           IN  tasks' = [tasks EXCEPT ![q] =
                    [@ EXCEPT !.state = "running", !.worker = w,
                              !.limit = limit, !.timer = timer_for(limit)]]
        /\ connections' = connections \cup {<<w, tasks[q].db_name>>}
        /\ UNCHANGED <<num_sql_threads, sql_time_limit_ms, interrupts>>
        /\ UNCHANGED <<routerVars, registryVars, constructionVars, callVars>>

\* the statement takes an internal step that is not its last
StatementStep ==
    \E q \in Queries :
        /\ can_step(tasks[q], interrupts)
        /\ tasks[q].elapsed + 1 < StatementSteps
        /\ tasks' = [tasks EXCEPT ![q].elapsed = @ + 1]
        /\ UNCHANGED <<num_sql_threads, sql_time_limit_ms, connections, interrupts>>
        /\ UNCHANGED <<routerVars, registryVars, constructionVars, callVars>>

\* the statement takes its last step and returns its rows: a Results
StatementReturns ==
    \E q \in Queries :
        /\ can_step(tasks[q], interrupts)
        /\ tasks[q].elapsed + 1 = StatementSteps
        /\ tasks' = [tasks EXCEPT ![q] =
                [@ EXCEPT !.state = "done", !.elapsed = @ + 1, !.timer = "off",
                          !.worker = 0,
                          !.outcome = "Result"]]
        /\ UNCHANGED <<num_sql_threads, sql_time_limit_ms, connections, interrupts>>
        /\ UNCHANGED <<routerVars, registryVars, constructionVars, callVars>>

\* the statement fails for a reason of the engine: a QueryError, logged when
\* log_sql_errors is set
StatementFails ==
    \E q \in Queries :
        /\ can_step(tasks[q], interrupts)
        /\ tasks[q].elapsed + 1 = StatementSteps
        /\ tasks' = [tasks EXCEPT ![q] =
                [@ EXCEPT !.state = "done", !.elapsed = @ + 1, !.timer = "off",
                          !.worker = 0,
                          !.outcome = "QueryError",
                          !.logged = tasks[q].kwargs.log_sql_errors]]
        /\ UNCHANGED <<num_sql_threads, sql_time_limit_ms, connections, interrupts>>
        /\ UNCHANGED <<routerVars, registryVars, constructionVars, callVars>>

\* the timer of a call elapses before the call has returned: it requests an
\* interrupt of the statement running on the connection of the call
TimerFires ==
    \E q \in Queries :
        /\ timer_due(tasks[q])
        /\ tasks' = [tasks EXCEPT ![q].timer = "fired"]
        /\ interrupts' = interrupts \cup
                (interrupt_target(connections, tasks[q]) \cap busy_connections(tasks))
        /\ UNCHANGED <<num_sql_threads, sql_time_limit_ms, connections>>
        /\ UNCHANGED <<routerVars, registryVars, constructionVars, callVars>>

\* the next internal step of an interrupted statement fails: a
\* QueryInterrupted, whatever log_sql_errors
StatementInterrupted ==
    \E q \in Queries :
        /\ tasks[q].state = "running"
        /\ connection_of(tasks[q]) \in interrupts
        /\ tasks' = [tasks EXCEPT ![q] =
                [@ EXCEPT !.state = "done", !.timer = "off", !.worker = 0,
                          !.outcome = "QueryInterrupted"]]
        /\ interrupts' = interrupts \ {connection_of(tasks[q])}
        /\ UNCHANGED <<num_sql_threads, sql_time_limit_ms, connections>>
        /\ UNCHANGED <<routerVars, registryVars, constructionVars, callVars>>

NextPool ==
    \/ ExecuteQuery
    \/ WorkerStarts
    \/ StatementStep
    \/ StatementReturns
    \/ StatementFails
    \/ TimerFires
    \/ StatementInterrupted

SpecPool == InitPool /\ [][NextPool]_vars

\* Datasette(files, memory=...) is being constructed: the loop over self.files
\* is about to start
InitConstruction ==
    /\ InitRouter({<<"/">>}, {<<>>}, {<<"/">>}, {FALSE}, {DefaultTemplates})
    /\ databases = <<>>
    /\ calls = <<>>
    /\ files \in {init_files(fs, memory) : fs \in FileLists(MaxFiles), memory \in BOOLEAN}
    /\ init = [next |-> 1, state |-> "loop"]
    /\ InitIdlePool({1}, {0})
    /\ InitNoCall

\* for file in self.files: one round of the loop
RegisterFile ==
    /\ init.state = "loop"
    /\ LET r == register_file(databases, files, init.next)
       IN  /\ databases' = r.databases
           /\ init' = r.init
    /\ UNCHANGED <<calls, files>>
    /\ UNCHANGED <<routerVars, poolVars, callVars>>

NextRegistry ==
    \/ RegisterFile
    \/ AddDatabase
    \/ RemoveDatabase

SpecRegistry == InitConstruction /\ [][NextRegistry]_vars

\* a call of Datasette.execute whose statement returns normally
InitRows ==
    /\ InitRouter({<<"/">>}, {<<>>}, {<<"/">>}, {FALSE}, {DefaultTemplates})
    /\ databases = add_database(<<>>, "a", Database("a"))
    /\ calls = <<>>
    /\ InitConstructed
    /\ InitIdlePool({1}, {0})
    /\ args \in RowCalls
    /\ result = NoResult

\* Datasette.execute("a", sql, truncate=..., page_size=...) returns
ExecuteReturns ==
    /\ result = NoResult
    /\ "a" \in Keys(databases)
    /\ result' = Returned(Results(args.rows, args.max_returned_rows,
                        execute_kwargs(args.truncate, 0, args.page_size, TRUE)))
    /\ UNCHANGED args
    /\ UNCHANGED <<routerVars, registryVars, constructionVars, poolVars>>

NextRows == ExecuteReturns

SpecRows == InitRows /\ [][NextRows]_vars

\* a call of metadata() is about to be made
InitMetadata ==
    /\ InitRouter({<<"/">>}, {<<>>}, {<<"/">>}, {FALSE}, {DefaultTemplates})
    /\ InitRegistry
    /\ InitConstructed
    /\ InitIdlePool({1}, {0})
    /\ args \in MetadataCalls
    /\ result = NoResult

\* Datasette.metadata(key, database, table, fallback) returns or raises
MetadataReturns ==
    /\ result = NoResult
    /\ result' = metadata(args.self_metadata, args.key, args.database,
                          args.table, args.fallback)
    /\ UNCHANGED args
    /\ UNCHANGED <<routerVars, registryVars, constructionVars, poolVars>>

NextMetadata == MetadataReturns

SpecMetadata == InitMetadata /\ [][NextMetadata]_vars

-----------------------------------------------------------------------------
(* What the claims speak of *)

\* the path the dispatch works on
routed_path == strip_base_url(base_url, scope.path)

\* route_path has run
Routed == pc # "route_path"

\* binding k structurally matches the path
StructurallyMatches(k, path) == re_match(routes[k].regex, path) # <<>>

\* the handler the dispatch invoked
Handler == IF match.route = 0 THEN "none" ELSE routes[match.route].view

\* "/<name>.db": one segment, a name, the suffix .db
IsDbFilePath(path) ==
    /\ Len(path) > 4
    /\ path[1] = "/"
    /\ \A i \in 2..Len(path) : path[i] # "/"
    /\ EndsWith(path, <<".", "d", "b">>)

\* the introspection endpoints
Endpoints ==
    {<<"m", "e", "t", "a", "d", "a", "t", "a">>,
     <<"v", "e", "r", "s", "i", "o", "n", "s">>,
     <<"p", "l", "u", "g", "i", "n", "s">>,
     <<"c", "o", "n", "f", "i", "g">>,
     <<"t", "h", "r", "e", "a", "d", "s">>,
     <<"d", "a", "t", "a", "b", "a", "s", "e", "s">>}

\* "/-/<endpoint>", with or without .json
IsEndpointPath(path) ==
    \E e \in Endpoints, suffix \in {<<>>, <<".", "j", "s", "o", "n">>} :
        path = <<"/", "-", "/">> \o e \o suffix

\* the responses among the events
Responses(evs) == SelectSeq(evs, LAMBDA e : e.ev = "response")

\* the request is finished and went through the not-found chain
InNotFoundChain ==
    /\ pc = "done"
    /\ \/ match = NoMatch
       \/ view_result.exception.kind = "NotFound"

\* the failure the error translator was given
Failure ==
    IF view_result.state = "raised" THEN view_result.exception ELSE NotFound("404")

\* the request is finished and the error translator produced its response
Translated ==
    /\ pc = "done"
    /\ Len(Responses(events)) = 1
    /\ Responses(events)[1].body.kind \in {"json", "html"}

TheResponse == Responses(events)[1]

\* the path without what follows a "?"
PathProper == split(scope.path, "?")[1]

JsonSuffix == <<".", "j", "s", "o", "n">>

\* the whole dispatch of a request: the binding, the view, the handlers
Dispatch(base, crs, tmpl, sc, vr) ==
    IF route_path(base, sc.path) = NoMatch
    THEN handle_404(sc, NoException, tmpl, crs)
    ELSE IF vr.state = "returned"
    THEN <<view_response>>
    ELSE IF vr.exception.kind = "NotFound"
    THEN handle_404(sc, vr.exception, tmpl, crs)
    ELSE handle_500(sc, vr.exception, tmpl, crs)

\* what a dispatch came to, the headers left aside: per event its kind, the
\* status, the template rendered and the payload
Outcome(evs) ==
    [k \in 1..Len(evs) |->
        IF evs[k].ev = "log"
        THEN [kind |-> "log", status |-> 0, template |-> NoTemplate,
              context |-> EmptyDict]
        ELSE [kind |-> evs[k].body.kind, status |-> evs[k].status,
              template |-> evs[k].body.template, context |-> evs[k].body.context]]

-----------------------------------------------------------------------------
(* Claims *)

\* C1: the bindings are registered in the documented order; a path that
\* structurally matches several bindings is handled by the earliest of them and
\* never by a later one; a path "/<name>.db" is always handled by the database
\* download handler; "/-/<endpoint>" is never handled by the table view.
C1_FirstMatchWins ==
    Routed =>
        /\ [k \in 1..Len(routes) |-> routes[k].view] =
              <<"IndexView", "favicon", "asgi_static", "asgi_static(mount)",
                "asgi_static(plugin)", "asgi_static(plugin_underscore)",
                "metadata.json", "versions.json", "plugins.json", "config.json",
                "threads.json", "databases.json", "PatternPortfolioView",
                "DatabaseDownload", "DatabaseView", "TableView", "RowView">>
        /\ \A k \in 1..Len(routes) :
              StructurallyMatches(k, routed_path) =>
                  /\ match.route # 0
                  /\ match.route <= k
                  /\ StructurallyMatches(match.route, routed_path)
        /\ IsDbFilePath(routed_path) => Handler = "DatabaseDownload"
        /\ IsEndpointPath(routed_path) => Handler # "TableView"

\* C1, what the code does hold to: the same, with the download handler
\* promised only to the paths "/<name>.db" the favicon pattern does not match.
C1_FirstMatchWinsButFavicon ==
    Routed =>
        /\ \A k \in 1..Len(routes) :
              StructurallyMatches(k, routed_path) =>
                  /\ match.route # 0
                  /\ match.route <= k
                  /\ StructurallyMatches(match.route, routed_path)
        /\ (IsDbFilePath(routed_path) /\ ~StructurallyMatches(2, routed_path))
              => Handler = "DatabaseDownload"
        /\ IsDbFilePath(routed_path) => Handler # "DatabaseView"
        /\ IsEndpointPath(routed_path) => Handler # "TableView"

\* C2: with a non-root base_url, a request for a path under it comes to what
\* the request for the stripped path comes to under the root base_url: the same
\* binding with the same captured values, and the same events (kind, status,
\* template, payload).
C2_PrefixTransparent ==
    (pc = "done" /\ base_url # <<"/">> /\ StartsWith(scope.path, base_url)) =>
        LET root == [scope EXCEPT !.path = routed_path]
        IN  /\ match = route_path(<<"/">>, root.path)
            /\ Outcome(events) =
                  Outcome(Dispatch(<<"/">>, cors, templates, root, view_result))

\* the steps of the router compose to Dispatch
DispatchAgrees ==
    pc = "done" => events = Dispatch(base_url, cors, templates, scope, view_result)

\* C3: a request in the not-found chain whose path ends in a slash is answered
\* by a redirect to the path without that one slash, followed by "?" and the
\* query string when it is not empty, with an empty body.
C3_RedirectDropsTheSlash ==
    (InNotFoundChain /\ EndsWith(scope.path, <<"/">>)) =>
        /\ Len(Responses(events)) = 1
        /\ TheResponse.status = 302
        /\ TheResponse.body.kind = "empty"
        /\ TheResponse.headers["Location"] =
              SubSeq(scope.path, 1, Len(scope.path) - 1)
                \o (IF scope.query_string # <<>>
                    THEN <<"?">> \o scope.query_string
                    ELSE <<>>)

\* C3, what the code does: the location is the path with all its trailing
\* slashes removed, which is empty for a path of slashes only.
C3_RedirectDropsAllSlashes ==
    (InNotFoundChain /\ EndsWith(scope.path, <<"/">>)) =>
        /\ Len(Responses(events)) = 1
        /\ TheResponse.status = 302
        /\ TheResponse.body.kind = "empty"
        /\ \E n \in 0..Len(scope.path) :
              /\ \A i \in (n + 1)..Len(scope.path) : scope.path[i] = "/"
              /\ n > 0 => scope.path[n] # "/"
              /\ TheResponse.headers["Location"] =
                    SubSeq(scope.path, 1, n)
                      \o (IF scope.query_string # <<>>
                          THEN <<"?">> \o scope.query_string
                          ELSE <<>>)

\* C4: a request in the not-found chain gets exactly one response, and no
\* request ever gets two; the response is the redirect whenever the path ends
\* in a slash, the rendered page template when it does not and the template
\* exists, and the error translator's answer to a NotFound otherwise.
C4_NotFoundChain ==
    /\ Len(Responses(events)) <= 1
    /\ pc # "done" => events = <<>>
    /\ InNotFoundChain =>
        /\ Len(Responses(events)) = 1
        /\ Len(events) = 1
        /\ IF EndsWith(scope.path, <<"/">>)
           THEN /\ TheResponse.body.kind = "empty"
                /\ "Location" \in DOMAIN TheResponse.headers
           ELSE IF template_path(scope) \in DOMAIN templates
           THEN /\ TheResponse.body.kind = "page"
                /\ TheResponse.body.template = template_path(scope)
           ELSE /\ TheResponse.body.kind \in {"json", "html"}
                /\ TheResponse.body.context["error"].text = Failure.message
                /\ Failure.kind = "NotFound"

\* C4 happens: a path with a trailing slash is redirected although the page
\* template of the slash-free path exists.
C4_Witness ==
    /\ InNotFoundChain
    /\ scope.path = <<"/", "x", "/">>
    /\ PageX \in DOMAIN templates
    /\ TheResponse.body.kind = "empty"

\* C5: a request in the not-found chain whose path has no trailing slash and no
\* page template, be it unmatched or be the NotFound raised by the view, is
\* answered with status 404.
C5_NotFoundIs404 ==
    (/\ InNotFoundChain
     /\ ~EndsWith(scope.path, <<"/">>)
     /\ template_path(scope) \notin DOMAIN templates) =>
        /\ Len(Responses(events)) = 1
        /\ TheResponse.status = 404

\* C5 happens: the NotFound of a view is answered with 404.
C5_Witness ==
    /\ InNotFoundChain
    /\ view_result.state = "raised"
    /\ ~EndsWith(scope.path, <<"/">>)
    /\ TheResponse.status = 404

\* C6: the payload for a NotFound, and the JSON body for an unexpected failure
\* on a path ending in .json, holds the two fields ok and error and no other.
C6_TwoFields ==
    (/\ Translated
     /\ \/ Failure.kind = "NotFound"
        \/ /\ Failure.kind \notin {"NotFound", "DatasetteError"}
           /\ TheResponse.body.kind = "json") =>
        /\ DOMAIN TheResponse.body.context = {"ok", "error"}
        /\ TheResponse.body.context["ok"] = FALSE
        /\ TheResponse.body.context["error"].text = Failure.message

\* C6, what the code does: the payload holds the four fields ok = false,
\* error = the message, status = the status of the response, title = None,
\* and no other.
C6_FourFields ==
    (/\ Translated
     /\ \/ Failure.kind = "NotFound"
        \/ /\ Failure.kind \notin {"NotFound", "DatasetteError"}
           /\ TheResponse.body.kind = "json") =>
        /\ DOMAIN TheResponse.body.context = {"ok", "error", "status", "title"}
        /\ TheResponse.body.context["ok"] = FALSE
        /\ TheResponse.body.context["error"].text = Failure.message
        /\ TheResponse.body.context["status"] = TheResponse.status
        /\ TheResponse.body.context["title"] = None

\* C6 happens: an unexpected failure on a path ending in .json.
C6_Witness ==
    /\ Translated
    /\ Failure.kind = "KeyError"
    /\ TheResponse.body.kind = "json"
    /\ EndsWith(scope.path, JsonSuffix)

\* C7: a failure that is neither NotFound nor DatasetteError is answered with
\* status 500 and its str() as the error, after its traceback went to the log.
C7_UnexpectedIs500 ==
    (/\ pc = "done"
     /\ view_result.state = "raised"
     /\ view_result.exception.kind \notin {"NotFound", "DatasetteError"}) =>
        /\ Len(events) = 2
        /\ events[1] = LogTraceback(view_result.exception)
        /\ events[2].ev = "response"
        /\ events[2].status = 500
        /\ events[2].body.context["error"].text = view_result.exception.message

\* C7 happens: a view raised an unexpected exception and the answer is sent.
C7_Witness ==
    /\ pc = "done"
    /\ view_result.state = "raised"
    /\ view_result.exception.kind = "Exception"
    /\ Len(events) = 2

\* C8: for a DatasetteError the status is the declared status, every entry of
\* the detail map is in the payload unchanged, the error is the declared
\* message and the title the declared title.
C8_Verbatim ==
    (/\ pc = "done"
     /\ view_result.state = "raised"
     /\ view_result.exception.kind = "DatasetteError") =>
        LET e == view_result.exception
            payload == TheResponse.body.context
        IN  /\ Len(Responses(events)) = 1
            /\ TheResponse.status = e.status
            /\ \A k \in DOMAIN e.error_dict :
                  /\ k \in DOMAIN payload
                  /\ payload[k] = e.error_dict[k]
            /\ payload["error"].text = e.message
            /\ payload["title"] = e.title

\* C8, what the code does: the same, for the entries of the detail map whose
\* key is none of ok, error, status, title; these four hold the translator's
\* own values.
C8_VerbatimButReserved ==
    (/\ pc = "done"
     /\ view_result.state = "raised"
     /\ view_result.exception.kind = "DatasetteError") =>
        LET e == view_result.exception
            payload == TheResponse.body.context
        IN  /\ Len(Responses(events)) = 1
            /\ TheResponse.status = e.status
            /\ \A k \in DOMAIN e.error_dict \ {"ok", "error", "status", "title"} :
                  /\ k \in DOMAIN payload
                  /\ payload[k] = e.error_dict[k]
            /\ payload["ok"] = FALSE
            /\ payload["status"] = e.status
            /\ payload["error"].text = e.message
            /\ payload["error"].safe = e.messagge_is_html
            /\ payload["title"] = e.title

\* C8 happens: a DatasetteError with a detail map was translated.
C8_Witness ==
    /\ pc = "done"
    /\ view_result.state = "raised"
    /\ view_result.exception.kind = "DatasetteError"
    /\ "extra" \in DOMAIN view_result.exception.error_dict
    /\ "extra" \in DOMAIN TheResponse.body.context

\* C9: the error translator answers in JSON exactly when the path, what
\* follows a "?" left aside, ends in .json; otherwise with the HTML of
\* "<status>.html" if the status is not 500 and that template exists, of
\* "500.html" if not, rendered with the payload as context.
C9_JsonOrHtml ==
    Translated =>
        LET status == TheResponse.status
            body == TheResponse.body
        IN  /\ body.kind = "json" <=> EndsWith(PathProper, JsonSuffix)
            /\ body.kind = "html" =>
                  /\ body.template =
                        IF /\ status # 500
                           /\ (str_int(status) \o <<".", "h", "t", "m", "l">>)
                                 \in DOMAIN templates
                        THEN str_int(status) \o <<".", "h", "t", "m", "l">>
                        ELSE generic_template
                  /\ {"ok", "error", "status", "title"} \subseteq DOMAIN body.context
                  /\ body.context["status"] = status
                  /\ body.context["error"].text = Failure.message

\* C9 happens: a path ending in .json, with a query string, answered in JSON.
C9_Witness ==
    /\ Translated
    /\ EndsWith(scope.path, JsonSuffix)
    /\ scope.query_string # <<>>
    /\ TheResponse.body.kind = "json"

\* C10: execute with a name that is no key of the registry fails, with a
\* failure that is neither QueryError nor QueryInterrupted, runs no SQL and
\* leaves the registry as it was.
C10_UnknownDatabase ==
    [][(/\ Len(calls') = Len(calls) + 1
        /\ calls'[Len(calls')].db_name \notin Keys(databases)) =>
           /\ calls'[Len(calls')].outcome
                 \notin {"Result", "QueryError", "QueryInterrupted"}
           /\ ~calls'[Len(calls')].sql_ran
           /\ databases' = databases]_vars

\* C10 happens: a call with an unknown name failed while databases are registered.
C10_Witness ==
    /\ databases # <<>>
    /\ calls # <<>>
    /\ calls[Len(calls)].db_name \notin Keys(databases)
    /\ calls[Len(calls)].outcome = "KeyError"

-----------------------------------------------------------------------------
(* The query executor *)

\* the limit the caller of call q asked for: the custom limit it passed, or
\* the process default
asked_limit(q) == time_limit_ms(tasks[q].args.custom_time_limit, sql_time_limit_ms)

\* call q has a positive limit and its statement would keep running past it
Outlasts(q) ==
    /\ tasks[q].state \in {"running", "done"}
    /\ asked_limit(q) > 0
    /\ StatementSteps > asked_limit(q)

\* C11: a call with a positive time limit T whose statement would keep running
\* past T never runs to completion: the statement takes at most T steps, the
\* call is never stuck, and it ends in QueryInterrupted, not in a Results or a
\* QueryError, with nothing logged, whatever log_sql_errors is.
C11_Interrupted ==
    \A q \in Queries :
        Outlasts(q) =>
            /\ tasks[q].elapsed <= asked_limit(q)
            /\ tasks[q].elapsed < StatementSteps
            /\ tasks[q].state = "running" =>
                    \/ can_step(tasks[q], interrupts)
                    \/ timer_due(tasks[q])
                    \/ connection_of(tasks[q]) \in interrupts
            /\ tasks[q].state = "done" =>
                    /\ tasks[q].outcome = "QueryInterrupted"
                    /\ ~tasks[q].logged

\* two calls whose statements outlast their limits, one limit its own and one
\* the default, were interrupted; log_sql_errors is set
C11_Witness ==
    \E q, r \in Queries :
        /\ Outlasts(q) /\ Outlasts(r)
        /\ tasks[q].args.log_sql_errors /\ tasks[r].args.log_sql_errors
        /\ tasks[q].outcome = "QueryInterrupted"
        /\ tasks[r].outcome = "QueryInterrupted"
        /\ tasks[q].args.custom_time_limit > 0
        /\ tasks[r].args.custom_time_limit = 0

\* the same without log_sql_errors
C11_WitnessUnlogged ==
    \E q, r \in Queries :
        /\ Outlasts(q) /\ Outlasts(r)
        /\ ~tasks[q].args.log_sql_errors /\ ~tasks[r].args.log_sql_errors
        /\ tasks[q].outcome = "QueryInterrupted"
        /\ tasks[r].outcome = "QueryInterrupted"
        /\ tasks[q].args.custom_time_limit > 0
        /\ tasks[r].args.custom_time_limit = 0

\* C12: a timer interrupts only the call it was started for. An interrupt is
\* pending only on the connection of a running call whose own timer fired; a
\* call ends in QueryInterrupted only if its own limit is positive and shorter
\* than its statement; every other call, whatever runs beside it on the same
\* database, runs all its steps and ends as the engine ends it.
C12_OwnTimerOnly ==
    /\ \A c \in interrupts :
            \E q \in Queries :
                /\ tasks[q].state = "running"
                /\ connection_of(tasks[q]) = c
                /\ tasks[q].timer = "fired"
    /\ \A q \in Queries :
            tasks[q].state = "done" =>
                IF Outlasts(q)
                THEN tasks[q].outcome = "QueryInterrupted"
                ELSE /\ tasks[q].outcome \in {"Result", "QueryError"}
                     /\ tasks[q].elapsed = StatementSteps

\* two calls on the same database with different positive limits have run side
\* by side: the short one was interrupted, the long one returned its rows
C12_Witness ==
    \E q, r \in Queries :
        /\ tasks[q].db_name = tasks[r].db_name
        /\ tasks[q].args.custom_time_limit > 0
        /\ tasks[r].args.custom_time_limit > tasks[q].args.custom_time_limit
        /\ tasks[q].outcome = "QueryInterrupted"
        /\ tasks[q].elapsed < tasks[r].elapsed
        /\ tasks[r].outcome = "Result"

\* the two calls in flight at once: the timer of the short one has fired while
\* the long one is part way through its statement
C12_InFlight ==
    \E q, r \in Queries :
        /\ tasks[q].db_name = tasks[r].db_name
        /\ tasks[q].state = "running" /\ tasks[r].state = "running"
        /\ connection_of(tasks[q]) \in interrupts
        /\ tasks[r].limit > tasks[q].limit
        /\ tasks[r].elapsed > 0

\* C13: with truncate set and a maximum of N rows, a statement matching more
\* than N rows yields its first N rows with truncated set; one matching N rows
\* or fewer yields all its rows with truncated unset; no result holds more than
\* N rows.
C13_Truncation ==
    (result.returned /\ args.truncate) =>
        LET N == args.max_returned_rows
        IN  /\ Len(args.rows) > N =>
                    /\ result.value.rows = SubSeq(args.rows, 1, N)
                    /\ Len(result.value.rows) = N
                    /\ result.value.truncated
            /\ Len(args.rows) <= N =>
                    /\ result.value.rows = args.rows
                    /\ ~result.value.truncated
            /\ Len(result.value.rows) <= N

\* a statement matching N + 1 rows was truncated to N
C13_Witness ==
    /\ result.returned
    /\ args.truncate
    /\ Len(args.rows) = args.max_returned_rows + 1
    /\ Len(result.value.rows) = args.max_returned_rows
    /\ result.value.truncated

\* the calls running on a worker; the open connections to a database
Running == {q \in Queries : tasks[q].state = "running"}

ConnectionsTo(db_name) == {c \in connections : c[2] = db_name}

\* C16: at any moment the number of calls running is at most num_sql_threads,
\* the size of the one pool all databases share, and so is the number of open
\* connections to any one database.
C16_PoolBound ==
    /\ Cardinality(Running) <= num_sql_threads
    /\ \A db_name \in Keys(databases) :
            Cardinality(ConnectionsTo(db_name)) <= num_sql_threads

\* the pool is full: every worker runs a call while another call waits, and
\* one database has a connection on every worker
C16_Witness ==
    /\ Cardinality(Running) = num_sql_threads
    /\ \E q \in Queries : tasks[q].state = "queued"
    /\ \E db_name \in Keys(databases) :
            Cardinality(ConnectionsTo(db_name)) = num_sql_threads

-----------------------------------------------------------------------------
(* The registry *)

\* the names of the first n files
names_of(fs, n) == {database_name(fs[k]) : k \in 1..n}

\* two of the files have the same name
SameStem(fs) ==
    \E i, j \in 1..Len(fs) : i # j /\ database_name(fs[i]) = database_name(fs[j])

\* C14: no two entries of the registry have the same name, during construction
\* and after any add_database and remove_database. Construction with two files
\* of the same stem never completes: it fails at the second of them, with the
\* files before it registered under their names and the second not registered;
\* construction without such files does not fail.
C14_UniqueNames ==
    /\ \A i, j \in 1..Len(databases) :
            databases[i].key = databases[j].key => i = j
    /\ SameStem(files) => init.state # "ready"
    /\ init.state = "failed" =>
            /\ SameStem(files)
            /\ database_name(files[init.next]) \in names_of(files, init.next - 1)
            /\ Len(databases) = init.next - 1
            /\ \A k \in 1..Len(databases) :
                    /\ databases[k].key = database_name(files[k])
                    /\ databases[k].db.name = databases[k].key
    /\ init.state = "loop" =>
            /\ Len(databases) = init.next - 1
            /\ \A k \in 1..Len(databases) :
                    databases[k].key = database_name(files[k])

\* construction has failed at the second of two files of one stem, after the
\* first was registered
C14_Witness ==
    /\ init.state = "failed"
    /\ Len(files) > 1
    /\ Keys(databases) = {"a"}
    /\ files[init.next].stem = "a"

\* at runtime a name was added a second time, with another Database, and the
\* registry still has one entry of that name
C14_Replaced ==
    /\ init.state = "ready"
    /\ \E k \in 1..Len(databases) :
            /\ databases[k].key = "b"
            /\ databases[k].db.name = "a"
    /\ "a" \in Keys(databases)

-----------------------------------------------------------------------------
(* The metadata *)

\* the levels a call of metadata() names: the dict of its table, the dict of
\* its database, the global dict
table_level ==
    get_or_empty(get_or_empty(get_or_empty(
        get_or_empty(args.self_metadata, "databases"), args.database), "tables"),
        args.table)

database_level ==
    get_or_empty(get_or_empty(args.self_metadata, "databases"), args.database)

global_level == args.self_metadata

\* the value of key k at the most specific level that defines it, among the
\* levels the call names; NoValue when none does
cascade(k) ==
    IF args.table # None /\ k \in DOMAIN table_level
    THEN table_level[k]
    ELSE IF args.database # None /\ k \in DOMAIN database_level
         THEN database_level[k]
         ELSE IF k \in DOMAIN global_level
              THEN global_level[k]
              ELSE NoValue

\* the most specific level the call names
most_specific ==
    IF args.table # None
    THEN table_level
    ELSE IF args.database # None THEN database_level ELSE global_level

\* C15: metadata() with a key returns the value of the most specific level
\* that defines the key, in the order table, database, global, and None when
\* no level defines it; with fallback=False only the most specific level the
\* arguments name is consulted.
C15_Cascade ==
    (result.returned /\ args.key # None) =>
        IF args.fallback
        THEN result.value = cascade(args.key)
        ELSE result.value = IF args.key \in DOMAIN most_specific
                            THEN most_specific[args.key]
                            ELSE NoValue

\* a key defined at all three levels was looked up for the table, with
\* fallback, and the value of the table came back
C15_Witness ==
    /\ result.returned
    /\ args.key = "title"
    /\ args.fallback
    /\ args.table = "t"
    /\ "title" \in DOMAIN table_level
    /\ "title" \in DOMAIN database_level
    /\ "title" \in DOMAIN global_level
    /\ result.value = Value("t")

\* a key defined for the database and globally only was looked up for the
\* table without fallback, and None came back
C15_NoFallback ==
    /\ result.returned
    /\ args.key = "title"
    /\ ~args.fallback
    /\ args.table = "t"
    /\ "title" \notin DOMAIN table_level
    /\ "title" \in DOMAIN database_level
    /\ "title" \in DOMAIN global_level
    /\ result.value = NoValue

\* the entry of key k in the mapping a call without key returned, NoValue when
\* the mapping has no such key
merged(k) == IF k \in DOMAIN result.value THEN result.value[k] ELSE NoValue

\* C17: metadata() without a key returns a mapping that follows the cascade of
\* the keyed lookup: for every key k, metadata(database=d, table=t)[k] is what
\* metadata(k, database=d, table=t) returns.
C17_MergedFollowsCascade ==
    (result.returned /\ args.key = None) =>
        \A k \in MetaKeys \cup NestKeys :
            merged(k) = metadata(args.self_metadata, k, args.database,
                                 args.table, args.fallback).value

\* what the code does: in the mapping a call without key returns, the least
\* specific level that defines a key gives its value
C17_LeastSpecificWins ==
    (result.returned /\ args.key = None) =>
        \A k \in MetaKeys \cup NestKeys :
            merged(k) =
                IF ~args.fallback
                THEN (IF k \in DOMAIN most_specific THEN most_specific[k] ELSE NoValue)
                ELSE IF k \in DOMAIN global_level
                     THEN global_level[k]
                     ELSE IF args.database # None /\ k \in DOMAIN database_level
                          THEN database_level[k]
                          ELSE IF args.table # None /\ k \in DOMAIN table_level
                               THEN table_level[k]
                               ELSE NoValue

\* a key defined for the database and globally: the merged mapping of the
\* database holds the global value
C17_GlobalValue ==
    /\ result.returned
    /\ args.key = None
    /\ args.database = "a"
    /\ args.table = None
    /\ args.fallback
    /\ "title" \in DOMAIN database_level
    /\ "title" \in DOMAIN global_level
    /\ merged("title") = Value("g")

====
